---- MODULE Spec2Model ----
(***************************************************************************)
(* Moderation views of django-machina (forum_moderation/views.py):         *)
(* TopicLockView, TopicDeleteView and TopicMoveView, each run inside one   *)
(* synchronous request/response cycle against the Topic and Forum tables.  *)
(***************************************************************************)
EXTENDS FiniteSets, Integers, Sequences, TLC

\* ---------------------------------------------------------------- bounds
NumTopics == 2
NumForums == 2
\* a permission handler answers True on at most MaxGrants (capability, forum)
\* pairs for the requesting user
MaxGrants == 1

TopicIds == 1..NumTopics
ForumIds == 1..NumForums

\* ------------------------------------------------------------- constants
\* Topic.STATUS_CHOICES, as the views and the data model name them
topic_unlocked == "normal"
topic_locked == "locked"
topic_moved == "moved"
STATUS_CHOICES == {topic_unlocked, topic_locked, topic_moved}

\* HTTP verbs for which one of the views' base classes has a handler
Methods == {"GET", "POST", "PUT", "DELETE"}

\* capability predicates of request.forum_permission_handler
Capabilities == {"can_close_topics", "can_delete_topics", "can_move_topics"}

TopicLockView_success_message == "This topic has been locked successfully."
TopicDeleteView_success_message == "This topic has been deleted successfully."
TopicMoveView_success_message == "This topic has been moved successfully."

\* ----------------------------------------------------------------- state
VARIABLES
  topics,     \* Topic table: pk -> [slug, status, forum_id]
  forums,     \* Forum table: pk -> [slug]
  request,    \* the request being answered, NoRequest between two requests
  response,   \* the response the view returned for it
  notices,    \* flash messages added to the request by messages.success
  trace       \* calls the view made to reverse() and to the ORM, in order

vars == <<topics, forums, request, response, notices, trace>>

\* --------------------------------------------------- values and helpers
NoUrl == [name |-> "", kwargs |-> [pk |-> 0]]
NoForm == [valid |-> FALSE, forum |-> 0, lock_topic |-> FALSE]
NoHandler == {}
NoRequest == [view |-> "", method |-> "", pk |-> 0, handler |-> NoHandler, form |-> NoForm]
NoResponse == [kind |-> "", url |-> NoUrl]
NoForum == [pk |-> 0, slug |-> ""]
NoObject == [pk |-> 0, slug |-> "", status |-> "", forum |-> NoForum]

\* the answers of a permission handler for the requesting user: the set of
\* (capability, forum) pairs on which it returns True
Handlers == {h \in SUBSET (Capabilities \X ForumIds) : Cardinality(h) <= MaxGrants}

can_close_topics(handler, forum) == <<"can_close_topics", forum.pk>> \in handler
can_delete_topics(handler, forum) == <<"can_delete_topics", forum.pk>> \in handler
can_move_topics(handler, forum) == <<"can_move_topics", forum.pk>> \in handler

\* what TopicMoveForm yields once bound to the submitted data: either it does
\* not validate, or cleaned_data holds a target forum and the lock flag
TopicMoveForm == {NoForm} \cup [valid : {TRUE}, forum : ForumIds, lock_topic : BOOLEAN]

TopicSlug(pk) == "topic-" \o ToString(pk)
ForumSlug(pk) == "forum-" \o ToString(pk)

\* django.core.urlresolvers.reverse: the URL is the route name with its kwargs
reverse(name, kwargs) == [name |-> name, kwargs |-> kwargs]

\* HttpResponseRedirect(url); the other outcomes are produced by the framework
HttpResponseRedirect(url) == [kind |-> "redirect", url |-> url]
TemplateResponse == [kind |-> "template", url |-> NoUrl]
Http404 == [kind |-> "not_found", url |-> NoUrl]
PermissionDenied == [kind |-> "denied", url |-> NoUrl]
HttpResponseNotAllowed == [kind |-> "not_allowed", url |-> NoUrl]

Called(call, target, pk) == [call |-> call, target |-> target, pk |-> pk]

\* self: the view instance together with the tables and the request's
\* message store it acts on
View(req) ==
  [topics |-> topics, forums |-> forums, request |-> req, object |-> NoObject,
   response |-> NoResponse, notices |-> <<>>, trace |-> <<>>]

\* SingleObjectMixin.get_object(): the Topic whose pk the URL names, with its
\* forum relation loaded
get_object(self) ==
  LET row == self.topics[self.request.pk]
  IN [pk |-> self.request.pk, slug |-> row.slug, status |-> row.status,
      forum |-> [pk |-> row.forum_id, slug |-> self.forums[row.forum_id].slug]]

\* messages.success(self.request, message)
messages_success(self, message) ==
  [self EXCEPT !.notices = Append(@, message)]

\* topic.save(): writes the row of the instance (UPDATE, or INSERT when absent)
Topic_save(self, topic) ==
  [self EXCEPT
     !.topics = [p \in DOMAIN self.topics \cup {topic.pk} |->
                   IF p = topic.pk
                   THEN [slug |-> topic.slug, status |-> topic.status,
                         forum_id |-> topic.forum.pk]
                   ELSE self.topics[p]],
     !.trace = Append(@, Called("save", "Topic", topic.pk))]

\* forum.save(): writes the row of the forum instance
Forum_save(self, forum) ==
  [self EXCEPT
     !.forums = [p \in DOMAIN self.forums \cup {forum.pk} |->
                   IF p = forum.pk THEN [slug |-> forum.slug] ELSE self.forums[p]],
     !.trace = Append(@, Called("save", "Forum", forum.pk))]

\* topic.delete(): removes the row of the instance
Topic_delete(self, topic) ==
  [self EXCEPT
     !.topics = [p \in DOMAIN self.topics \ {topic.pk} |-> self.topics[p]],
     !.trace = Append(@, Called("delete", "Topic", topic.pk))]

\* ------------------------------------------------------------ TopicLockView
TopicLockView_get_success_url_silent(self) ==
  [self |-> [self EXCEPT !.trace = Append(@, Called("reverse", "forum-conversation:topic", self.object.forum.pk))],
   value |-> reverse("forum-conversation:topic",
                     [forum_slug |-> self.object.forum.slug, forum_pk |-> self.object.forum.pk,
                      slug |-> self.object.slug, pk |-> self.object.pk])]

TopicLockView_get_success_url(self) ==
  LET s1 == messages_success(self, TopicLockView_success_message)
  IN [self |-> [s1 EXCEPT !.trace = Append(@, Called("reverse", "forum-conversation:topic", self.object.forum.pk))],
      value |-> reverse("forum-conversation:topic",
                        [forum_slug |-> self.object.forum.slug, forum_pk |-> self.object.forum.pk,
                         slug |-> self.object.slug, pk |-> self.object.pk])]

TopicLockView_lock_moved(self) ==
  LET s1 == [self EXCEPT !.object = get_object(self)]
      r == TopicLockView_get_success_url(s1)
      s2 == [r.self EXCEPT !.object.status = topic_moved]
      s3 == Topic_save(s2, s2.object)
  IN [s3 EXCEPT !.response = HttpResponseRedirect(r.value)]

TopicLockView_lock(self) ==
  LET s1 == [self EXCEPT !.object = get_object(self)]
      r == TopicLockView_get_success_url(s1)
      s2 == [r.self EXCEPT !.object.status = topic_locked]
      s3 == Topic_save(s2, s2.object)
  IN [s3 EXCEPT !.response = HttpResponseRedirect(r.value)]

TopicLockView_post(self) == TopicLockView_lock(self)

\* BaseDetailView.get(): fetches the topic and renders the confirmation
\* template with the context of get_context_data()
TopicLockView_get(self) ==
  [self EXCEPT !.object = get_object(self), !.response = TemplateResponse]

TopicLockView_get_controlled_object(self) == get_object(self).forum

\* asks for the capability of another view
TopicLockView_perform_permissions_check_delete(self, obj) ==
  can_delete_topics(self.request.handler, obj)

TopicLockView_perform_permissions_check(self, obj) ==
  can_close_topics(self.request.handler, obj)

\* View.dispatch(): the handler is the method of the view named after the verb
TopicLockView_handler(self) ==
  CASE self.request.method = "GET" -> TopicLockView_get(self)
    [] self.request.method = "POST" -> TopicLockView_post(self)
    [] OTHER -> [self EXCEPT !.response = HttpResponseNotAllowed]

\* PermissionRequiredMixin.dispatch(): the controlled object is fetched first
\* (a missing topic ends the request with Http404), then the permission check
\* decides between the denial path and the handler of the view
TopicLockView_dispatch(self) ==
  IF self.request.pk \notin DOMAIN self.topics
  THEN [self EXCEPT !.response = Http404]
  ELSE IF ~TopicLockView_perform_permissions_check(self, TopicLockView_get_controlled_object(self))
       THEN [self EXCEPT !.response = PermissionDenied]
       ELSE TopicLockView_handler(self)

\* ---------------------------------------------------------- TopicDeleteView
TopicDeleteView_get_success_url(self) ==
  LET s1 == messages_success(self, TopicDeleteView_success_message)
  IN [self |-> [s1 EXCEPT !.trace = Append(@, Called("reverse", "forum:forum", self.object.forum.pk))],
      value |-> reverse("forum:forum",
                        [slug |-> self.object.forum.slug, pk |-> self.object.forum.pk])]

\* the order of DeletionMixin.delete() before Django 1.6
TopicDeleteView_delete_then_url(self) ==
  LET s1 == [self EXCEPT !.object = get_object(self)]
      s2 == Topic_delete(s1, s1.object)
      r == TopicDeleteView_get_success_url(s2)
  IN [r.self EXCEPT !.response = HttpResponseRedirect(r.value)]

\* deletes every topic of the forum instead of the fetched one
TopicDeleteView_delete_forum_topics(self) ==
  LET s1 == [self EXCEPT !.object = get_object(self)]
      r == TopicDeleteView_get_success_url(s1)
      s2 == [r.self EXCEPT
               !.topics = [p \in {q \in DOMAIN self.topics :
                                    self.topics[q].forum_id # s1.object.forum.pk} |-> self.topics[p]],
               !.trace = Append(@, Called("delete", "Topic", s1.object.pk))]
  IN [s2 EXCEPT !.response = HttpResponseRedirect(r.value)]

TopicDeleteView_delete(self) ==
  LET s1 == [self EXCEPT !.object = get_object(self)]
      r == TopicDeleteView_get_success_url(s1)
      s2 == Topic_delete(r.self, r.self.object)
  IN [s2 EXCEPT !.response = HttpResponseRedirect(r.value)]

\* DeletionMixin.post() calls delete()
TopicDeleteView_post(self) == TopicDeleteView_delete(self)

\* BaseDetailView.get() of DeleteView: renders the confirmation template
TopicDeleteView_get(self) ==
  [self EXCEPT !.object = get_object(self), !.response = TemplateResponse]

TopicDeleteView_get_controlled_object(self) == get_object(self).forum

TopicDeleteView_perform_permissions_check(self, obj) ==
  can_delete_topics(self.request.handler, obj)

TopicDeleteView_handler(self) ==
  CASE self.request.method = "GET" -> TopicDeleteView_get(self)
    [] self.request.method = "POST" -> TopicDeleteView_post(self)
    [] self.request.method = "DELETE" -> TopicDeleteView_delete(self)
    [] OTHER -> [self EXCEPT !.response = HttpResponseNotAllowed]

\* PermissionRequiredMixin.dispatch(): the controlled object is fetched first
\* (a missing topic ends the request with Http404), then the permission check
\* decides between the denial path and the handler of the view
TopicDeleteView_dispatch(self) ==
  IF self.request.pk \notin DOMAIN self.topics
  THEN [self EXCEPT !.response = Http404]
  ELSE IF ~TopicDeleteView_perform_permissions_check(self, TopicDeleteView_get_controlled_object(self))
       THEN [self EXCEPT !.response = PermissionDenied]
       ELSE TopicDeleteView_handler(self)

\* ------------------------------------------------------------ TopicMoveView
TopicMoveView_get_success_url(self) ==
  [self |-> [self EXCEPT !.trace = Append(@, Called("reverse", "forum-conversation:topic", self.object.forum.pk))],
   value |-> reverse("forum-conversation:topic",
                     [forum_slug |-> self.object.forum.slug, forum_pk |-> self.object.forum.pk,
                      slug |-> self.object.slug, pk |-> self.object.pk])]

\* reads old_forum after the reassignment, so the target forum is saved
TopicMoveView_form_valid_saves_target(self, form) ==
  LET topic0 == self.object
      new_forum == [pk |-> form.forum, slug |-> self.forums[form.forum].slug]
      topic1 == [topic0 EXCEPT !.forum = new_forum]
      old_forum == topic1.forum
      topic2 == [topic1 EXCEPT !.status = IF form.lock_topic THEN topic_locked ELSE topic_moved]
      s1 == Topic_save([self EXCEPT !.object = topic2], topic2)
      s2 == Forum_save(s1, old_forum)
      s3 == messages_success(s2, TopicMoveView_success_message)
      r == TopicMoveView_get_success_url(s3)
  IN [r.self EXCEPT !.response = HttpResponseRedirect(r.value)]

\* loses the forum of cleaned_data, so the topic is left without a forum
TopicMoveView_form_valid_no_forum(self, form) ==
  LET topic0 == self.object
      old_forum == topic0.forum
      topic1 == [topic0 EXCEPT !.forum = NoForum]
      topic2 == [topic1 EXCEPT !.status = IF form.lock_topic THEN topic_locked ELSE topic_moved]
      s1 == Topic_save([self EXCEPT !.object = topic2], topic2)
      s2 == Forum_save(s1, old_forum)
      s3 == messages_success(s2, TopicMoveView_success_message)
      r == TopicMoveView_get_success_url(s3)
  IN [r.self EXCEPT !.response = HttpResponseRedirect(r.value)]

\* computes the success URL before the move, as lock() and delete() do
TopicMoveView_form_valid_early_url(self, form) ==
  LET topic0 == self.object
      r == TopicMoveView_get_success_url(self)
      old_forum == topic0.forum
      new_forum == [pk |-> form.forum, slug |-> self.forums[form.forum].slug]
      topic1 == [topic0 EXCEPT !.forum = new_forum]
      topic2 == [topic1 EXCEPT !.status = IF form.lock_topic THEN topic_locked ELSE topic_moved]
      s1 == Topic_save([r.self EXCEPT !.object = topic2], topic2)
      s2 == Forum_save(s1, old_forum)
      s3 == messages_success(s2, TopicMoveView_success_message)
  IN [s3 EXCEPT !.response = HttpResponseRedirect(r.value)]

TopicMoveView_form_valid(self, form) ==
  LET topic0 == self.object
      old_forum == topic0.forum
      new_forum == [pk |-> form.forum, slug |-> self.forums[form.forum].slug]
      topic1 == [topic0 EXCEPT !.forum = new_forum]
      topic2 == [topic1 EXCEPT !.status = IF form.lock_topic THEN topic_locked ELSE topic_moved]
      s1 == Topic_save([self EXCEPT !.object = topic2], topic2)
      s2 == Forum_save(s1, old_forum)
      s3 == messages_success(s2, TopicMoveView_success_message)
      r == TopicMoveView_get_success_url(s3)
  IN [r.self EXCEPT !.response = HttpResponseRedirect(r.value)]

\* FormMixin.form_invalid(): renders the template again with the bound form
TopicMoveView_form_invalid(self, form) ==
  [self EXCEPT !.response = TemplateResponse]

\* skips is_valid(): a form that does not validate is processed with the
\* initial data (the topic's own forum, no lock)
TopicMoveView_post_unvalidated(self) ==
  LET s1 == [self EXCEPT !.object = get_object(self)]
      form == self.request.form
  IN IF form.valid THEN TopicMoveView_form_valid(s1, form)
                   ELSE TopicMoveView_form_valid(s1, [valid |-> TRUE, forum |-> s1.object.forum.pk,
                                                      lock_topic |-> FALSE])

\* post(): fetches the topic, then ProcessFormView.post() validates the form
TopicMoveView_post(self) ==
  LET s1 == [self EXCEPT !.object = get_object(self)]
      form == self.request.form
  IN IF form.valid THEN TopicMoveView_form_valid(s1, form)
                   ELSE TopicMoveView_form_invalid(s1, form)


\* get(): fetches the topic, then ProcessFormView.get() renders the unbound form
TopicMoveView_get(self) ==
  [self EXCEPT !.object = get_object(self), !.response = TemplateResponse]

\* checks the permission on the forum chosen in the form
TopicMoveView_get_controlled_object_target(self) ==
  IF self.request.form.valid
  THEN [pk |-> self.request.form.forum, slug |-> self.forums[self.request.form.forum].slug]
  ELSE get_object(self).forum

TopicMoveView_get_controlled_object(self) == get_object(self).forum

TopicMoveView_perform_permissions_check(self, obj) ==
  can_move_topics(self.request.handler, obj)

\* View.dispatch(); ProcessFormView.put() calls post()
TopicMoveView_handler(self) ==
  CASE self.request.method = "GET" -> TopicMoveView_get(self)
    [] self.request.method = "POST" -> TopicMoveView_post(self)
    [] self.request.method = "PUT" -> TopicMoveView_post(self)
    [] OTHER -> [self EXCEPT !.response = HttpResponseNotAllowed]

\* PermissionRequiredMixin.dispatch(): the controlled object is fetched first
\* (a missing topic ends the request with Http404), then the permission check
\* decides between the denial path and the handler of the view
TopicMoveView_dispatch(self) ==
  IF self.request.pk \notin DOMAIN self.topics
  THEN [self EXCEPT !.response = Http404]
  ELSE IF ~TopicMoveView_perform_permissions_check(self, TopicMoveView_get_controlled_object(self))
       THEN [self EXCEPT !.response = PermissionDenied]
       ELSE TopicMoveView_handler(self)

\* ------------------------------------------------------------ specification
\* a request carries its verb, the pk of the URL, the permission handler the
\* middleware attached for its user and, for a submission, the bound form
Request(view, method, pk, handler, form) ==
  [view |-> view, method |-> method, pk |-> pk, handler |-> handler, form |-> form]

\* the view's effects reach the tables and the response goes out
Respond(self) ==
  /\ topics' = self.topics
  /\ forums' = self.forums
  /\ request' = self.request
  /\ response' = self.response
  /\ notices' = self.notices
  /\ trace' = self.trace

Init ==
  /\ \E status \in [TopicIds -> STATUS_CHOICES], forum \in [TopicIds -> ForumIds] :
       topics = [pk \in TopicIds |->
                   [slug |-> TopicSlug(pk), status |-> status[pk], forum_id |-> forum[pk]]]
  /\ forums = [pk \in ForumIds |-> [slug |-> ForumSlug(pk)]]
  /\ request = NoRequest
  /\ response = NoResponse
  /\ notices = <<>>
  /\ trace = <<>>

\* no request is being answered: the next one may arrive
Idle == request = NoRequest

TopicLockViewRequest(method, pk, handler) ==
  /\ Idle
  /\ Respond(TopicLockView_dispatch(View(Request("lock", method, pk, handler, NoForm))))

TopicDeleteViewRequest(method, pk, handler) ==
  /\ Idle
  /\ Respond(TopicDeleteView_dispatch(View(Request("delete", method, pk, handler, NoForm))))

TopicMoveViewRequest(method, pk, handler, form) ==
  /\ Idle
  /\ form # NoForm => method \in {"POST", "PUT"}
  /\ Respond(TopicMoveView_dispatch(View(Request("move", method, pk, handler, form))))

\* the request/response cycle ends: the view instance and the request, with
\* its messages, are gone; only the tables remain
Complete ==
  /\ request # NoRequest
  /\ request' = NoRequest
  /\ response' = NoResponse
  /\ notices' = <<>>
  /\ trace' = <<>>
  /\ UNCHANGED <<topics, forums>>

Next ==
  \/ Idle /\ \E method \in Methods, pk \in TopicIds, handler \in Handlers :
               TopicLockViewRequest(method, pk, handler)
  \/ Idle /\ \E method \in Methods, pk \in TopicIds, handler \in Handlers :
               TopicDeleteViewRequest(method, pk, handler)
  \/ Idle /\ \E method \in Methods, pk \in TopicIds, handler \in Handlers, form \in TopicMoveForm :
               TopicMoveViewRequest(method, pk, handler, form)
  \/ Complete

Spec == Init /\ [][Next]_vars

TypeOK ==
  /\ DOMAIN topics \subseteq TopicIds
  /\ \A pk \in DOMAIN topics : topics[pk].status \in STATUS_CHOICES
  /\ response.kind \in {"", "redirect", "template", "not_found", "denied", "not_allowed"}
  /\ Len(notices) <= 1

\* ------------------------------------------------------------- properties
\* a step in which a request to the view arrives and is answered
Arrives(view) == Idle /\ request' # NoRequest /\ request'.view = view

\* the topic the arriving request names is stored when it arrives
Stored == request'.pk \in DOMAIN topics

\* the forum the topic belongs to when the request arrives
OriginalForum == topics[request'.pk].forum_id

\* the ORM writes among the calls of a trace
Writes(calls) == SelectSeq(calls, LAMBDA c : c.call \in {"save", "delete"})

\* the page of a stored topic, addressed through the given forum
TopicPage(forum_pk, pk) ==
  [name |-> "forum-conversation:topic",
   kwargs |-> [forum_slug |-> forums[forum_pk].slug, forum_pk |-> forum_pk,
               slug |-> TopicSlug(pk), pk |-> pk]]

\* the page of a forum
ForumPage(forum_pk) ==
  [name |-> "forum:forum", kwargs |-> [slug |-> forums[forum_pk].slug, pk |-> forum_pk]]

\* C1: a permitted POST to TopicLockView leaves the stored topic with status
\* "locked" and with the forum it had before, whatever its status was
C1_LockSetsLockedKeepsForum ==
  [][(/\ Arrives("lock") /\ request'.method = "POST" /\ Stored
      /\ <<"can_close_topics", OriginalForum>> \in request'.handler)
     => (/\ request'.pk \in DOMAIN topics'
         /\ topics'[request'.pk].status = "locked"
         /\ topics'[request'.pk].forum_id = OriginalForum)]_vars

C1_Witness ==
  /\ request.view = "lock" /\ request.method = "POST"
  /\ response.kind = "redirect"
  /\ request.pk \in DOMAIN topics /\ topics[request.pk].status = "locked"
  /\ Writes(trace) = <<Called("save", "Topic", request.pk)>>

\* C2: a permitted move with a valid form sets the topic's forum to the target
\* B (B may be the original forum A), sets its status to "locked" when the lock
\* flag is set and to "moved" otherwise, and saves the topic and then forum A
C2_MoveReassignsAndSaves ==
  [][(/\ Arrives("move") /\ request'.form.valid /\ Stored
      /\ <<"can_move_topics", OriginalForum>> \in request'.handler)
     => (/\ request'.pk \in DOMAIN topics'
         /\ topics'[request'.pk].forum_id = request'.form.forum
         /\ topics'[request'.pk].status =
              (IF request'.form.lock_topic THEN "locked" ELSE "moved")
         /\ Writes(trace') = <<Called("save", "Topic", request'.pk),
                               Called("save", "Forum", OriginalForum)>>)]_vars

C2_Witness ==
  /\ request.view = "move" /\ request.form.valid /\ request.form.lock_topic
  /\ response.kind = "redirect"
  /\ topics[request.pk].forum_id = request.form.forum
  /\ topics[request.pk].status = "locked"
  /\ \E a \in ForumIds \ {request.form.forum} :
       Writes(trace) = <<Called("save", "Topic", request.pk), Called("save", "Forum", a)>>

\* C3: a permitted delete request removes the topic from storage and redirects
\* to the page of the forum the topic belonged to; the redirect target is
\* computed (reverse is called) before the topic is deleted
C3_DeleteRemovesAndRedirects ==
  [][(/\ Arrives("delete") /\ request'.method \in {"POST", "DELETE"} /\ Stored
      /\ <<"can_delete_topics", OriginalForum>> \in request'.handler)
     => (/\ request'.pk \notin DOMAIN topics'
         /\ response' = [kind |-> "redirect", url |-> ForumPage(OriginalForum)]
         /\ trace' = <<Called("reverse", "forum:forum", OriginalForum),
                       Called("delete", "Topic", request'.pk)>>)]_vars

C3_Witness ==
  /\ request.view = "delete" /\ request.method = "POST"
  /\ request.pk \notin DOMAIN topics
  /\ response.kind = "redirect" /\ response.url.name = "forum:forum"
  /\ Len(trace) = 2 /\ trace[1].call = "reverse" /\ trace[2].call = "delete"

\* the capability each view asks the permission handler for
Capability(view) ==
  CASE view = "lock" -> "can_close_topics"
    [] view = "delete" -> "can_delete_topics"
    [] view = "move" -> "can_move_topics"

\* C4: when the permission handler returns false for the capability of the
\* view on the topic's forum, the request ends on the denial path and the
\* topic's status, forum and existence are unchanged
C4_DeniedChangesNothing ==
  [][\A view \in {"lock", "delete", "move"} :
       (/\ Arrives(view) /\ Stored
        /\ <<Capability(view), OriginalForum>> \notin request'.handler)
       => (/\ response'.kind = "denied"
           /\ topics' = topics /\ forums' = forums
           /\ Writes(trace') = <<>>)]_vars

C4_Witness ==
  /\ request.view = "lock" /\ request.method = "POST"
  /\ response.kind = "denied"
  /\ request.pk \in DOMAIN topics
  /\ <<"can_delete_topics", topics[request.pk].forum_id>> \in request.handler
  /\ topics[request.pk].status = "normal"

\* C5: every stored topic references one forum, and that forum is stored
C5_TopicHasOneStoredForum ==
  \A pk \in DOMAIN topics :
    /\ topics[pk].forum_id \in DOMAIN forums
    /\ Cardinality({f \in DOMAIN forums : f = topics[pk].forum_id}) = 1

C5_Witness ==
  /\ request.view = "move" /\ response.kind = "redirect"
  /\ \E a \in ForumIds :
       /\ a # topics[request.pk].forum_id
       /\ Writes(trace) = <<Called("save", "Topic", request.pk), Called("save", "Forum", a)>>
  /\ \E other \in DOMAIN topics : other # request.pk

\* C6: a move request is authorized against the forum the topic belongs to
\* when the request arrives, never against the target forum of the form
C6_MoveCheckedOnOriginalForum ==
  [][(Arrives("move") /\ Stored)
     => ((response'.kind = "denied")
           <=> (<<"can_move_topics", OriginalForum>> \notin request'.handler))]_vars

C6_Witness ==
  /\ request.view = "move" /\ request.form.valid
  /\ response.kind = "redirect"
  /\ <<"can_move_topics", request.form.forum>> \notin request.handler

\* C7: after a successful move to forum B the redirect target is the topic's
\* page addressed through B; after a successful lock it is the topic's page
\* addressed through the topic's unchanged forum
C7_RedirectThroughCurrentForum ==
  /\ (request.view = "move" /\ response.kind = "redirect")
       => response.url = TopicPage(request.form.forum, request.pk)
  /\ (request.view = "lock" /\ response.kind = "redirect")
       => response.url = TopicPage(topics[request.pk].forum_id, request.pk)

C7_Witness ==
  /\ request.view = "move" /\ response.kind = "redirect"
  /\ response.url.kwargs.forum_pk = request.form.forum
  /\ \E a \in ForumIds \ {request.form.forum} : Called("save", "Forum", a) = trace[2]

\* C8: exactly one success notice for a request that completes its state
\* change, none for a denied request, a GET, or a move with an invalid form
C8_OneNoticePerCompletedChange ==
  request # NoRequest =>
    /\ Len(notices) = (IF Writes(trace) # <<>> THEN 1 ELSE 0)
    /\ (\/ response.kind = "denied"
        \/ request.method = "GET"
        \/ (request.view = "move" /\ ~request.form.valid)) => notices = <<>>
    /\ response.kind = "redirect" <=> Writes(trace) # <<>>

C8_Witness ==
  /\ request.view = "lock" /\ response.kind = "redirect"
  /\ notices = <<TopicLockView_success_message>>

\* the step wrote to storage: a table changed or the ORM was asked to write
Mutates == topics' # topics \/ forums' # forums \/ Writes(trace') # <<>>

\* a GET to any of the views, and a submission to the move view whose form is
\* invalid, change nothing in storage
ReadOnlyRequestsChangeNothing ==
  (/\ Idle /\ request' # NoRequest
   /\ request'.method = "GET" \/ (request'.view = "move" /\ request'.method = "POST"
                                   /\ ~request'.form.valid))
  => ~Mutates

\* C9 as stated: ... and only a POST to lock or delete, or a valid move form,
\* mutates state
C9_OnlyPostMutates ==
  [][/\ ReadOnlyRequestsChangeNothing
     /\ Mutates => \/ request'.view \in {"lock", "delete"} /\ request'.method = "POST"
                   \/ request'.view = "move" /\ request'.form.valid]_vars

\* C9 amended: a GET to any of the views, and a submission to the move view
\* whose form is invalid, change nothing in storage; only a POST to lock, a
\* POST or DELETE to delete, or a valid move form, mutates state
C9_OnlyPostOrDeleteMutates ==
  [][/\ ReadOnlyRequestsChangeNothing
     /\ Mutates => \/ request'.view = "lock" /\ request'.method = "POST"
                   \/ request'.view = "delete" /\ request'.method \in {"POST", "DELETE"}
                   \/ request'.view = "move" /\ request'.form.valid]_vars

C9_Witness ==
  /\ request.view = "delete" /\ request.method = "DELETE"
  /\ request.pk \notin DOMAIN topics
  /\ Writes(trace) = <<Called("delete", "Topic", request.pk)>>

\* C10: a deleted topic stays deleted, every later request for it ends in the
\* not-found outcome and leaves storage unchanged, and a request for one topic
\* never changes the status, forum or existence of any other topic
C10_DeletedStaysDeletedOthersUntouched ==
  [][/\ \A pk \in TopicIds : pk \notin DOMAIN topics => pk \notin DOMAIN topics'
     /\ (Idle /\ request' # NoRequest /\ ~Stored)
          => (response'.kind = "not_found" /\ ~Mutates)
     /\ (Idle /\ request' # NoRequest)
          => \A other \in TopicIds \ {request'.pk} :
               /\ other \in DOMAIN topics <=> other \in DOMAIN topics'
               /\ other \in DOMAIN topics => topics'[other] = topics[other]]_vars

C10_Witness ==
  /\ request.view \in {"lock", "move", "delete"} /\ request.method = "POST"
  /\ response.kind = "not_found"
  /\ request.pk \notin DOMAIN topics
  /\ \E other \in DOMAIN topics : other # request.pk

====
